---------------------------- MODULE Spec2Model ----------------------------
(***************************************************************************)
(* A model of pyrsa's inference utilities                                  *)
(* (src/pyrsa/util/inference_util.py): input_check_model, pool_rdm and     *)
(* its NaN-aware helpers, pair_tests and the t-tests.                      *)
(*                                                                         *)
(* Every function of the module is pure apart from what it does to its     *)
(* argument objects, so a behaviour is one call: Init draws the function   *)
(* and its arguments from bounded sets, and the function's action runs it  *)
(* to its return value or to the exception it raises.                      *)
(*                                                                         *)
(* Floating point numbers are modelled as exact rationals extended with    *)
(* NaN and the two infinities (rounding is not modelled).                  *)
(***************************************************************************)
EXTENDS Integers, Sequences, FiniteSets, TLC

VARIABLES
    pc,       \* "ready": the call has not run; "done": it has returned or raised
    op,       \* the function that is called
    args,     \* the arguments as they were passed (a snapshot, never changed)
    heap,     \* the argument objects as they are now (Python passes references)
    ret,      \* [raised |-> the exception raised or "none", value |-> what is returned]
    notices   \* the diagnostics (warnings) emitted so far

vars == <<pc, op, args, heap, ret, notices>>

----------------------------------------------------------------------------
(* Floats: [nan, n, d]; n/d in lowest terms with d > 0, or d = 0 and       *)
(* n = 1 / n = -1 for +inf / -inf; NaN is the one record with nan = TRUE.  *)

Abs(x) == IF x < 0 THEN -x ELSE x

RECURSIVE GCD(_, _)
GCD(a, b) == IF b = 0 THEN a ELSE GCD(b, a % b)

NaN == [nan |-> TRUE, n |-> 0, d |-> 1]

IsNaN(x) == x.nan

Sign(k) == IF k > 0 THEN 1 ELSE IF k < 0 THEN -1 ELSE 0

\* the float n/d of two integers (0/0 is NaN, k/0 is an infinity)
Frac(n, d) ==
    IF d = 0
    THEN IF n = 0 THEN NaN ELSE [nan |-> FALSE, n |-> Sign(n), d |-> 0]
    ELSE LET g == GCD(Abs(n), Abs(d))
             s == IF d < 0 THEN -1 ELSE 1
         IN  [nan |-> FALSE, n |-> (s * n) \div g, d |-> (s * d) \div g]

FInt(k) == Frac(k, 1)

IsInf(x) == ~x.nan /\ x.d = 0

IsFinite(x) == ~x.nan /\ x.d # 0

FNeg(x) == IF x.nan THEN NaN ELSE [x EXCEPT !.n = -x.n]

FAdd(x, y) ==
    IF x.nan \/ y.nan THEN NaN
    ELSE IF IsInf(x) /\ IsInf(y) THEN (IF x.n = y.n THEN x ELSE NaN)
    ELSE IF IsInf(x) THEN x
    ELSE IF IsInf(y) THEN y
    ELSE Frac(x.n * y.d + y.n * x.d, x.d * y.d)

FSub(x, y) == FAdd(x, FNeg(y))

FMul(x, y) ==
    IF x.nan \/ y.nan THEN NaN
    ELSE IF IsInf(x) \/ IsInf(y)
         THEN (IF x.n = 0 \/ y.n = 0 THEN NaN
               ELSE [nan |-> FALSE, n |-> Sign(x.n) * Sign(y.n), d |-> 0])
    ELSE Frac(x.n * y.n, x.d * y.d)

FDiv(x, y) ==
    IF x.nan \/ y.nan THEN NaN
    ELSE IF IsInf(x) THEN (IF IsInf(y) THEN NaN
                           ELSE [x EXCEPT !.n = x.n * (IF y.n < 0 THEN -1 ELSE 1)])
    ELSE IF IsInf(y) THEN FInt(0)
    ELSE Frac(x.n * y.d, x.d * y.n)

\* IEEE comparisons: every comparison with NaN is false
FLess(x, y) == ~x.nan /\ ~y.nan /\ x.n * y.d < y.n * x.d

FEq(x, y) == ~x.nan /\ ~y.nan /\ x = y

FLeq(x, y) == FLess(x, y) \/ FEq(x, y)

\* numpy.minimum: NaN if either operand is NaN
FMinimum(x, y) == IF x.nan \/ y.nan THEN NaN ELSE IF FLess(y, x) THEN y ELSE x

RECURSIVE FSum(_)
FSum(s) == IF Len(s) = 0 THEN FInt(0) ELSE FAdd(s[1], FSum(Tail(s)))

\* numpy.mean of a one-dimensional array
FMean(s) == FDiv(FSum(s), FInt(Len(s)))

\* the number of indices of 1..n that satisfy the boolean array b
CountTrue(b, n) == Cardinality({k \in 1..n : b[k]})

----------------------------------------------------------------------------
(* Arrays: an array of ndim axes is a sequence of arrays of ndim-1 axes;   *)
(* an array of 0 axes is a float.                                          *)

RECURSIVE Arrays(_, _)
Arrays(shape, vals) ==
    IF Len(shape) = 0 THEN vals
    ELSE [1..shape[1] -> Arrays(Tail(shape), vals)]

\* numpy.mean(x, axis=-1) of an array of ndim >= 1 axes
RECURSIVE MeanLastAxis(_, _)
MeanLastAxis(x, ndim) ==
    IF ndim = 1 THEN FMean(x)
    ELSE [k \in DOMAIN x |-> MeanLastAxis(x[k], ndim - 1)]

\* while len(evaluations.shape) > 2: evaluations = np.mean(evaluations, axis=-1)
RECURSIVE ReduceTo2D(_, _)
ReduceTo2D(x, ndim) ==
    IF ndim > 2 THEN ReduceTo2D(MeanLastAxis(x, ndim), ndim - 1) ELSE x

----------------------------------------------------------------------------
(* pair_tests                                                              *)

\* np.zeros((k, k))
ZeroMatrix(k) == [i \in 1..k |-> [j \in 1..k |-> FInt(0)]]

\* a proportion over all samples, the tied ones included
PairProportionOfAll(ev, i, j) ==
    LET n == Len(ev)
        less == CountTrue([k \in 1..n |-> FLess(ev[k][i], ev[k][j])], n)
    IN  FDiv(FInt(less), FInt(n))

\* np.sum(ev[:, i] < ev[:, j]) / (ev.shape[0] - np.sum(ev[:, i] == ev[:, j]))
PairProportion(ev, i, j) ==
    LET n == Len(ev)
        less == CountTrue([k \in 1..n |-> FLess(ev[k][i], ev[k][j])], n)
        ties == CountTrue([k \in 1..n |-> FEq(ev[k][i], ev[k][j])], n)
    IN  FDiv(FInt(less), FInt(n - ties))

\* a loop that writes [i, j] only and leaves [j, i] at its initial value
FillProportionsUpperOnly(zeros, ev, m) ==
    [i \in 1..m |-> [j \in 1..m |->
        IF i < j THEN PairProportion(ev, i, j) ELSE zeros[i][j]]]

\* the double loop over i_model < j_model: both [i, j] and [j, i] are written,
\* every other entry keeps what the matrix held
FillProportions(zeros, ev, m) ==
    [i \in 1..m |-> [j \in 1..m |->
        IF i < j THEN PairProportion(ev, i, j)
        ELSE IF j < i THEN PairProportion(ev, j, i)
        ELSE zeros[i][j]]]

\* np.minimum(proportions, 1 - proportions) * 2
TwoSided(P) ==
    [i \in DOMAIN P |-> [j \in DOMAIN P[i] |->
        FMul(FMinimum(P[i][j], FSub(FInt(1), P[i][j])), FInt(2))]]

\* a rescaling that leaves out the additive 1 / len(evaluations)
ScaleOnly(P, n) ==
    [i \in DOMAIN P |-> [j \in DOMAIN P[i] |-> FMul(Frac(n - 1, n), P[i][j])]]

\* (len(evaluations) - 1) / len(evaluations) * proportions + 1 / len(evaluations)
ContinuityCorrection(P, n) ==
    [i \in DOMAIN P |-> [j \in DOMAIN P[i] |->
        FAdd(FMul(Frac(n - 1, n), P[i][j]), Frac(1, n))]]

\* np.fill_diagonal(proportions, v)
FillDiagonal(P, v) ==
    [i \in DOMAIN P |-> [j \in DOMAIN P[i] |-> IF i = j THEN v ELSE P[i][j]]]

\* pair_tests(evaluations); t is [shape, data]
pair_tests(t) ==
    LET m  == t.shape[2]
        ev == ReduceTo2D(t.data, Len(t.shape))
        n  == Len(ev)
    IN  IF n = 0
        THEN \* Python's int / int in the correction
             [raised |-> "ZeroDivisionError", value |-> <<>>]
        ELSE [raised |-> "none",
              value  |-> FillDiagonal(
                             ContinuityCorrection(
                                 TwoSided(FillProportions(ZeroMatrix(m), ev, m)), n),
                             FInt(1))]

----------------------------------------------------------------------------
(* Inputs of pair_tests                                                    *)

\* the largest number of bootstrap samples (first axis) of a 2-D tensor
MaxSamples == 3

\* the numbers of models (second axis) of a 2-D tensor
ModelCounts == {2, 3}

\* the scores a model is given in one sample
Scores == {FInt(0), FInt(1)}

\* tensors with trailing axes, which pair_tests averages away
TrailingShapes == {<<1, 2, 2>>, <<2, 2, 2>>, <<1, 2, 2, 2>>}

TensorShapes ==
    {<<n, m>> : n \in 1..MaxSamples, m \in ModelCounts} \cup TrailingShapes

Tensor(shape) == {[shape |-> shape, data |-> d] : d \in Arrays(shape, Scores)}

NoReturn == [raised |-> "none", value |-> <<>>]

InitPair ==
    /\ pc = "ready"
    /\ op = "pair_tests"
    /\ \E shape \in TensorShapes : \E t \in Tensor(shape) :
          /\ args = [evaluations |-> t]
          /\ heap = [evaluations |-> t]
    /\ ret = NoReturn
    /\ notices = <<>>

PairTests ==
    /\ pc = "ready"
    /\ op = "pair_tests"
    /\ ret' = pair_tests(heap.evaluations)
    /\ pc' = "done"
    /\ UNCHANGED <<op, args, heap, notices>>

SpecPair == InitPair /\ [][PairTests]_vars

----------------------------------------------------------------------------
(* Statistics of the t-tests.  A statistic diff / sqrt(var) is kept as its *)
(* sign and its square, [nan, sgn, sq]: sq is a float (possibly +inf).     *)
(* A p-value of scipy's Student t distribution is kept as the statistic it *)
(* is the tail probability of: [nan, tail, sgn, sq, dof].  stats.t.cdf is  *)
(* a distribution function (values in [0,1], strictly increasing) and      *)
(* returns NaN for a NaN statistic.                                        *)

TNaN == [nan |-> TRUE, sgn |-> 0, sq |-> NaN]

\* np.sqrt(x): NaN for a negative x
Sqrt(x) ==
    IF x.nan \/ x.n < 0 THEN TNaN
    ELSE [nan |-> FALSE, sgn |-> Sign(x.n), sq |-> x]

\* x / r for a float x and a root r (0 / 0 is NaN, x / 0 an infinity)
DivByRoot(x, r) ==
    IF x.nan \/ r.nan THEN TNaN
    ELSE LET q == FDiv(FMul(x, x), r.sq)
         IN  IF q.nan THEN TNaN
             ELSE [nan |-> FALSE, sgn |-> Sign(x.n), sq |-> q]

\* np.abs(t)
TAbs(t) == [t EXCEPT !.sgn = Abs(t.sgn)]

\* 2 * (1 - stats.t.cdf(np.abs(t), dof))
TwoSidedP(t, dof) ==
    [nan |-> t.nan, tail |-> "two", sgn |-> TAbs(t).sgn, sq |-> t.sq, dof |-> dof]

\* 1 - stats.t.cdf(t, dof)
UpperTailP(t, dof) ==
    [nan |-> t.nan, tail |-> "upper", sgn |-> t.sgn, sq |-> t.sq, dof |-> dof]

\* np.mean(x, 0) of an array of ndim >= 1 axes
RECURSIVE MeanFirstAxis(_, _)
MeanFirstAxis(x, ndim) ==
    IF ndim = 1 THEN FMean(x)
    ELSE [j \in DOMAIN x[1] |->
             MeanFirstAxis([k \in DOMAIN x |-> x[k][j]], ndim - 1)]

\* while evaluations.ndim > 1: evaluations = np.mean(evaluations, axis=-1)
RECURSIVE ReduceTo1D(_, _)
ReduceTo1D(x, ndim) ==
    IF ndim > 1 THEN ReduceTo1D(MeanLastAxis(x, ndim), ndim - 1) ELSE x

\* evaluations = np.mean(evaluations, 0), then the while loop
ModelMeans(t) ==
    ReduceTo1D(MeanFirstAxis(t.data, Len(t.shape)), Len(t.shape) - 1)

\* np.diag of a vector: the matrix with the vector on its diagonal
DiagMatrix(v) ==
    [i \in DOMAIN v |-> [j \in DOMAIN v |-> IF i = j THEN v[i] ELSE FInt(0)]]

\* np.diag of a matrix: its diagonal
Diagonal(M) == [i \in DOMAIN M |-> M[i][i]]

\* if len(variances.shape) == 1: variances = np.diag(variances)
AsCovariance(variances) ==
    IF variances.ndim = 1 THEN DiagMatrix(variances.data) ELSE variances.data

\* an argument that is None
None == [none |-> TRUE, ndim |-> 0, data |-> <<>>]

Given(ndim, data) == [none |-> FALSE, ndim |-> ndim, data |-> data]

\* a return of nothing in place of the error
NoVarianceIgnored == [raised |-> "none", value |-> <<>>]

MissingVariance == [raised |-> "ValueError: No variance estimates provided", value |-> <<>>]

----------------------------------------------------------------------------
(* t_test_0                                                                *)

t_test_0(evaluations, variances, dof) ==
    IF variances.none THEN MissingVariance
    ELSE LET means == ModelMeans(evaluations)
             var   == Diagonal(AsCovariance(variances))
         IN  [raised |-> "none",
              value  |-> [i \in DOMAIN means |->
                             UpperTailP(DivByRoot(means[i], Sqrt(var[i])), dof)]]

----------------------------------------------------------------------------
(* t_test_nc                                                               *)

\* noise_ceil_var = np.array(noise_ceil_var);
\* while noise_ceil_var.ndim > 1: noise_ceil_var = noise_ceil_var[:, 0]
FirstColumn(ncv) ==
    IF ~ncv.none /\ ncv.ndim > 1
    THEN Given(1, [i \in DOMAIN ncv.data |-> ncv.data[i][1]])
    ELSE ncv

\* noise_ceil_var.size
Size(a) == IF a.ndim = 0 THEN 1 ELSE Len(a.data)

\* the value of an array of one element
Item(a) == IF a.ndim = 0 THEN a.data ELSE a.data[1]

\* noise_ceil_var[i] is past the end of the array for some model i
NcvIndexError(ncv, m) == ~ncv.none /\ Size(ncv) > 1 /\ m > Len(ncv.data)

\* a variance that leaves the noise ceiling's variance out
EffectiveVarianceOfModelOnly(var, ncv, i) == var[i]

\* var_i in the three branches of the loop
EffectiveVariance(var, ncv, i) ==
    IF ncv.none THEN var[i]
    ELSE IF Size(ncv) > 1
         THEN FAdd(FSub(var[i], FMul(FInt(2), ncv.data[i])),
                   ncv.data[Len(ncv.data)])
    ELSE FAdd(var[i], Item(ncv))

t_test_nc(evaluations, variances, noise_ceil, noise_ceil_var, dof) ==
    IF variances.none THEN MissingVariance
    ELSE LET ncv   == FirstColumn(noise_ceil_var)
             means == ModelMeans(evaluations)
             var   == Diagonal(AsCovariance(variances))
             m     == Len(means)
         IN  IF NcvIndexError(ncv, m)
             THEN [raised |-> "IndexError", value |-> <<>>]
             ELSE [raised |-> "none",
                   value  |-> [i \in 1..m |->
                       TwoSidedP(DivByRoot(FSub(means[i], noise_ceil),
                                           Sqrt(EffectiveVariance(var, ncv, i))),
                                 dof)]]

----------------------------------------------------------------------------
(* t_tests.  pairwise_contrast (pyrsa/util/matrix.py) and                  *)
(* batch_to_matrices (pyrsa/util/rdm_utils.py) are modelled from their     *)
(* description: one contrast row per pair i < j with +1 at i and -1 at j,  *)
(* rows in the order of the double loop; the pair vector is put back into  *)
(* a symmetric matrix with a zero diagonal.                                *)

\* the row of pair i < j among the pairs of m models
RowOf(i, j, m) == (i - 1) * m - ((i - 1) * i) \div 2 + (j - i)

NPairs(m) == (m * (m - 1)) \div 2

PairOf(r, m) ==
    CHOOSE q \in (1..m) \X (1..m) : q[1] < q[2] /\ RowOf(q[1], q[2], m) = r

PairwiseContrast(m) ==
    [r \in 1..NPairs(m) |-> [c \in 1..m |->
        IF c = PairOf(r, m)[1] THEN FInt(1)
        ELSE IF c = PairOf(r, m)[2] THEN FInt(-1)
        ELSE FInt(0)]]

BatchToMatrix(v, m) ==
    [i \in 1..m |-> [j \in 1..m |->
        IF i < j THEN v[RowOf(i, j, m)]
        ELSE IF j < i THEN v[RowOf(j, i, m)]
        ELSE [nan |-> FALSE, sgn |-> 0, sq |-> FInt(0)]]]

\* the inner product of two vectors
Dot(x, y) == FSum([k \in DOMAIN x |-> FMul(x[k], y[k])])

\* A @ x
MatVec(A, x) == [r \in DOMAIN A |-> Dot(A[r], x)]

\* contrast variances that leave the covariances between the models out
ContrastVariancesOfDiagonal(C, S) ==
    [r \in DOMAIN C |-> Dot(C[r], MatVec(DiagMatrix(Diagonal(S)), C[r]))]

\* np.diag(C @ S @ C.T)
ContrastVariances(C, S) == [r \in DOMAIN C |-> Dot(C[r], MatVec(S, C[r]))]

t_tests(evaluations, variances, dof) ==
    IF variances.none THEN MissingVariance
    ELSE LET m     == evaluations.shape[2]
             means == ModelMeans(evaluations)
             C     == PairwiseContrast(m)
             diffs == MatVec(C, means)
             var   == ContrastVariances(C, AsCovariance(variances))
             t     == [r \in DOMAIN C |-> DivByRoot(diffs[r], Sqrt(var[r]))]
             T     == BatchToMatrix(t, m)
         IN  [raised |-> "none",
              value  |-> [i \in 1..m |-> [j \in 1..m |-> TwoSidedP(T[i][j], dof)]]]

----------------------------------------------------------------------------
(* Inputs of the tests                                                     *)

\* evaluation tensors of the t-tests
TTensorShapes == {<<2, 2>>, <<1, 2, 2>>, <<1, 3>>}

Vectors(k, vals) == [1..k -> vals]

\* symmetric k x k matrices with entries of vals
SymmetricMatrices(k, vals) ==
    {M \in [1..k -> [1..k -> vals]] :
        \A i \in 1..k : \A j \in 1..k : M[i][j] = M[j][i]}

\* the forms of an optional array argument
ArrayForms(m) == IF m = 2 THEN {"none", "scalar", "vector", "matrix"}
                 ELSE {"none", "scalar", "vector"}

\* variances: None, a vector of m variances, a covariance matrix of 2 models
VarianceForms(m) == ArrayForms(m) \ {"scalar"}

VarianceArgs(form, m) ==
    CASE form = "none"   -> {None}
      [] form = "vector" -> {Given(1, v) : v \in Vectors(m, {FInt(0), FInt(1)})}
      [] form = "matrix" ->
            {Given(2, M) : M \in SymmetricMatrices(m, {FInt(1), FInt(2)})}

NoiseCeilings == {FInt(0), FInt(1)}

\* noise_ceil_var: None, a scalar, a vector of 2 or 3 elements, a 2 x 2 matrix
NoiseCeilingVarArgs(form) ==
    CASE form = "none"   -> {None}
      [] form = "scalar" -> {Given(0, x) : x \in {FInt(0), FInt(1)}}
      [] form = "vector" -> {Given(1, v) : v \in Vectors(2, {FInt(0), FInt(1)})
                                             \cup Vectors(3, {FInt(0), FInt(1)})}
      [] form = "matrix" ->
            {Given(2, M) : M \in SymmetricMatrices(2, {FInt(0), FInt(1)})}

DegreesOfFreedom == {1}

InitTTestNc ==
    /\ pc = "ready"
    /\ op = "t_test_nc"
    /\ \E shape \in TTensorShapes : \E t \in Tensor(shape) :
       \E vf \in VarianceForms(shape[2]) : \E v \in VarianceArgs(vf, shape[2]) :
       \E nc \in NoiseCeilings :
       \E nf \in ArrayForms(shape[2]) : \E ncv \in NoiseCeilingVarArgs(nf) :
       \E dof \in DegreesOfFreedom :
          /\ args = [evaluations |-> t, variances |-> v, noise_ceil |-> nc,
                     noise_ceil_var |-> ncv, dof |-> dof]
          /\ heap = args
    /\ ret = NoReturn
    /\ notices = <<>>

InitTTest0 ==
    /\ pc = "ready"
    /\ op = "t_test_0"
    /\ \E shape \in TTensorShapes : \E t \in Tensor(shape) :
       \E vf \in VarianceForms(shape[2]) : \E v \in VarianceArgs(vf, shape[2]) :
       \E dof \in DegreesOfFreedom :
          /\ args = [evaluations |-> t, variances |-> v, dof |-> dof]
          /\ heap = args
    /\ ret = NoReturn
    /\ notices = <<>>

InitTTests ==
    /\ pc = "ready"
    /\ op = "t_tests"
    /\ \E shape \in TTensorShapes : \E t \in Tensor(shape) :
       \E vf \in VarianceForms(shape[2]) : \E v \in VarianceArgs(vf, shape[2]) :
       \E dof \in DegreesOfFreedom :
          /\ args = [evaluations |-> t, variances |-> v, dof |-> dof]
          /\ heap = args
    /\ ret = NoReturn
    /\ notices = <<>>

TTestNc ==
    /\ pc = "ready"
    /\ op = "t_test_nc"
    /\ ret' = t_test_nc(heap.evaluations, heap.variances, heap.noise_ceil,
                        heap.noise_ceil_var, heap.dof)
    /\ pc' = "done"
    /\ UNCHANGED <<op, args, heap, notices>>

TTest0 ==
    /\ pc = "ready"
    /\ op = "t_test_0"
    /\ ret' = t_test_0(heap.evaluations, heap.variances, heap.dof)
    /\ pc' = "done"
    /\ UNCHANGED <<op, args, heap, notices>>

TTests ==
    /\ pc = "ready"
    /\ op = "t_tests"
    /\ ret' = t_tests(heap.evaluations, heap.variances, heap.dof)
    /\ pc' = "done"
    /\ UNCHANGED <<op, args, heap, notices>>

\* the four significance tests
SpecTests ==
    /\ InitPair \/ InitTTests \/ InitTTest0 \/ InitTTestNc
    /\ [][PairTests \/ TTests \/ TTest0 \/ TTestNc]_vars

----------------------------------------------------------------------------
(* pool_rdm and its helpers.  An RDM collection is                         *)
(* [dissimilarities (rows of floats, NaN for a masked entry),              *)
(*  dissimilarity_measure, descriptors, rdm_descriptors,                   *)
(*  pattern_descriptors].                                                  *)

\* the square root of a perfect square
IRoot(k) == CHOOSE r \in 0..k : r * r = k

IsSquare(k) == \E r \in 0..k : r * r = k

\* a float whose square root is a float of the model (a rational)
HasExactRoot(x) ==
    x.nan \/ x.d = 0 \/ x.n < 0 \/ (IsSquare(x.n) /\ IsSquare(x.d))

\* np.sqrt of a float with an exact root
FSqrt(x) ==
    IF x.nan \/ x.n < 0 THEN NaN
    ELSE IF x.d = 0 THEN x
    ELSE Frac(IRoot(x.n), IRoot(x.d))

\* the entries of a vector that are not NaN, in order
RECURSIVE NotNaN(_)
NotNaN(v) ==
    IF Len(v) = 0 THEN <<>>
    ELSE IF IsNaN(v[1]) THEN NotNaN(Tail(v))
    ELSE <<v[1]>> \o NotNaN(Tail(v))

\* np.nanmean of a vector (NaN for a vector of NaNs)
NanMean(v) == FMean(NotNaN(v))

Squares(v) == [k \in DOMAIN v |-> FMul(v[k], v[k])]

\* np.nanstd of a vector
NanStd(v) ==
    LET mu == NanMean(v)
    IN  FSqrt(NanMean(Squares([k \in DOMAIN v |-> FSub(v[k], mu)])))

\* np.nanmin of a vector (NaN for a vector of NaNs)
NanMin(v) ==
    LET w == NotNaN(v)
    IN  IF Len(w) = 0 THEN NaN
        ELSE CHOOSE x \in {w[k] : k \in DOMAIN w} :
                 \A k \in DOMAIN w : FLeq(x, w[k])

\* a mask without the negation: the columns where the first row IS NaN
nan_mean_inverted_mask(vec) ==
    <<[c \in DOMAIN vec[1] |->
          IF IsNaN(vec[1][c]) THEN FMean([r \in DOMAIN vec |-> vec[r][c]])
          ELSE NaN]>>

\* _nan_mean(rdm_vector): the columns where the FIRST row is not NaN get
\* np.mean over all rows, every other column is NaN; one row is returned
nan_mean(vec) ==
    <<[c \in DOMAIN vec[1] |->
          IF ~IsNaN(vec[1][c]) THEN FMean([r \in DOMAIN vec |-> vec[r][c]])
          ELSE NaN]>>

\* a ranking that gives tied values the lowest of the ranks they span
RankDataMin(w) ==
    [k \in DOMAIN w |->
        FInt(Cardinality({l \in DOMAIN w : FLess(w[l], w[k])}) + 1)]

\* scipy.stats.rankdata (method 'average') of a vector without NaN
RankData(w) ==
    [k \in DOMAIN w |->
        LET less  == Cardinality({l \in DOMAIN w : FLess(w[l], w[k])})
            equal == Cardinality({l \in DOMAIN w : FEq(w[l], w[k])})
        IN  Frac(2 * less + equal + 1, 2)]

\* the number of entries before position k that are not NaN
Before(v, k) == Cardinality({l \in 1..(k - 1) : ~IsNaN(v[l])})

\* _nan_rank_data(rdm_vector)
nan_rank_data(v) ==
    LET ranks_no_nan == RankData(NotNaN(v))
    IN  [k \in DOMAIN v |->
            IF IsNaN(v[k]) THEN NaN ELSE ranks_no_nan[Before(v, k) + 1]]

\* rdm_vec / np.sqrt(np.nanmean(rdm_vec ** 2, axis=1, keepdims=True))
UnitMeanSquare(vec) ==
    [r \in DOMAIN vec |->
        LET rms == FSqrt(NanMean(Squares(vec[r])))
        IN  [c \in DOMAIN vec[r] |-> FDiv(vec[r][c], rms)]]

\* rdm_vec - np.nanmean(rdm_vec, axis=1, keepdims=True)
Centered(vec) ==
    [r \in DOMAIN vec |->
        LET mu == NanMean(vec[r])
        IN  [c \in DOMAIN vec[r] |-> FSub(vec[r][c], mu)]]

\* rdm_vec / np.nanstd(rdm_vec, axis=1, keepdims=True)
UnitStd(vec) ==
    [r \in DOMAIN vec |->
        LET sd == NanStd(vec[r])
        IN  [c \in DOMAIN vec[r] |-> FDiv(vec[r][c], sd)]]

\* rdm_vec - np.nanmin(rdm_vec)
ShiftToZero(vec) ==
    LET mn == NanMin(vec[1])
    IN  <<[c \in DOMAIN vec[1] |-> FSub(vec[1][c], mn)]>>

\* np.array([_nan_rank_data(v) for v in rdm_vec])
Ranked(vec) == [r \in DOMAIN vec |-> nan_rank_data(vec[r])]

\* a chain that lacks the branch of 'tau-a'
PoolBranchWithoutTauA(method) ==
    IF method = "euclid" THEN "mean"
    ELSE IF method = "cosine" THEN "unit_mean_square"
    ELSE IF method = "corr" THEN "standardized"
    ELSE IF method = "cosine_cov" THEN "unit_mean_square"
    ELSE IF method = "corr_cov" THEN "standardized"
    ELSE IF method = "spearman" \/ method = "rho-a" THEN "ranks"
    ELSE IF method = "kendall" \/ method = "tau-b" THEN "ranks_warning"
    ELSE "raise"

\* the if / elif chain of pool_rdm: the branch a method name takes
PoolBranch(method) ==
    IF method = "euclid" THEN "mean"
    ELSE IF method = "cosine" THEN "unit_mean_square"
    ELSE IF method = "corr" THEN "standardized"
    ELSE IF method = "cosine_cov" THEN "unit_mean_square"
    ELSE IF method = "corr_cov" THEN "standardized"
    ELSE IF method = "spearman" \/ method = "rho-a" THEN "ranks"
    ELSE IF method = "rho-a" THEN "ranks"
    ELSE IF method = "kendall" \/ method = "tau-b" THEN "ranks_warning"
    ELSE IF method = "tau-a" THEN "ranks_warning"
    ELSE "raise"

\* the transformed rows, not averaged
TransformedRows(vec, branch) ==
    CASE branch = "mean" -> vec
      [] branch = "unit_mean_square" -> UnitMeanSquare(vec)
      [] branch = "standardized" -> UnitStd(Centered(vec))
      [] branch \in {"ranks", "ranks_warning"} -> Ranked(vec)

\* the pooled vector a branch computes
PooledVector(vec, branch) ==
    CASE branch = "mean" -> nan_mean(vec)
      [] branch = "unit_mean_square" -> nan_mean(UnitMeanSquare(vec))
      [] branch = "standardized" -> ShiftToZero(nan_mean(UnitStd(Centered(vec))))
      [] branch \in {"ranks", "ranks_warning"} -> nan_mean(Ranked(vec))

\* the diagnostics a branch emits: Warning('Noise ceiling for tau based on
\* averaged ranks!') builds an exception object that is neither raised nor
\* passed to warnings.warn, so no branch emits anything
PoolNotices(branch) == <<>>

\* RDMs(dissimilarities, dissimilarity_measure, descriptors, rdm_descriptors,
\* pattern_descriptors): rdm_descriptors=None gives no row descriptors
RDMs(dissimilarities, measure, descriptors, rdm_descriptors, pattern_descriptors) ==
    [dissimilarities |-> dissimilarities,
     dissimilarity_measure |-> measure,
     descriptors |-> descriptors,
     rdm_descriptors |-> IF rdm_descriptors = "None" THEN {} ELSE rdm_descriptors,
     pattern_descriptors |-> pattern_descriptors]

pool_rdm(rdms, method) ==
    IF PoolBranch(method) = "raise"
    THEN [raised |-> "ValueError: Unknown RDM comparison method requested!",
          value |-> <<>>]
    ELSE [raised |-> "none",
          value  |-> RDMs(PooledVector(rdms.dissimilarities, PoolBranch(method)),
                          rdms.dissimilarity_measure,
                          rdms.descriptors,
                          "None",
                          rdms.pattern_descriptors)]

----------------------------------------------------------------------------
(* Inputs of pool_rdm                                                      *)

\* the largest number of rows (RDMs) of a collection of 2 columns
MaxRows == 2

\* rows x columns of the collections
RdmShapes == {<<k, 2>> : k \in 1..MaxRows} \cup {<<1, 3>>, <<2, 3>>}

\* a dissimilarity, or NaN for a masked entry
Dissimilarities == {FInt(1), FInt(7), NaN}

\* the metric names of the documentation
PoolMethods ==
    {"euclid", "cosine", "corr", "cosine_cov", "corr_cov", "spearman", "rho-a",
     "kendall", "tau-b", "tau-a"}

\* other names
OtherMethods == {"Cosine", "pearson", "mean"}

\* descriptors are sets of <<name, value>> pairs (one value per row for the
\* row descriptors)
RdmCollections(shape) ==
    {[dissimilarities |-> d,
      dissimilarity_measure |-> "euclidean",
      descriptors |-> {<<"session", "s1">>},
      rdm_descriptors |-> {<<"subject", [r \in 1..shape[1] |-> r]>>},
      pattern_descriptors |-> {<<"stim", [c \in 1..shape[2] |-> c]>>}] :
        d \in Arrays(shape, Dissimilarities)}

\* the floats of the model are rationals: the collections whose row norms
\* are rational
Representable(rdms, method) ==
    LET vec == rdms.dissimilarities
    IN  /\ method \in {"cosine", "cosine_cov"} =>
              \A r \in DOMAIN vec : HasExactRoot(NanMean(Squares(vec[r])))
        /\ method \in {"corr", "corr_cov"} =>
              \A r \in DOMAIN vec :
                  HasExactRoot(NanMean(Squares(Centered(vec)[r])))

InitPool ==
    /\ pc = "ready"
    /\ op = "pool_rdm"
    /\ \E shape \in RdmShapes : \E rdms \in RdmCollections(shape) :
       \E method \in PoolMethods \cup OtherMethods :
          /\ Representable(rdms, method)
          /\ args = [rdms |-> rdms, method |-> method]
          /\ heap = args
    /\ ret = NoReturn
    /\ notices = <<>>

PoolRdm ==
    /\ pc = "ready"
    /\ op = "pool_rdm"
    /\ ret' = pool_rdm(heap.rdms, heap.method)
    /\ notices' = notices \o PoolNotices(PoolBranch(heap.method))
    /\ pc' = "done"
    /\ UNCHANGED <<op, args, heap>>

SpecPool == InitPool /\ [][PoolRdm]_vars

----------------------------------------------------------------------------
(* input_check_model.  A Model is [name, default_fitter].  The model       *)
(* argument is [form, items]: one Model ("Model"), a list of Models        *)
(* ("list") or an object that is neither ("other").  theta and fitter are  *)
(* [form, items, value]: None ("none"), a list ("list", its entries in     *)
(* items) or one object that is not iterable ("single", in value).  An     *)
(* object is <<kind, identity>>.                                           *)

\* Python's None
PyNone == <<"None", 0>>

Absent == [form |-> "none", items |-> <<>>, value |-> PyNone]

Single(v) == [form |-> "single", items |-> <<>>, value |-> v]

ListOf(items) == [form |-> "list", items |-> items, value |-> PyNone]

\* [x] * k
Repeat(x, k) == [i \in 1..k |-> x]

\* np.zeros(shape)
Zeros(shape) ==
    [shape |-> shape, data |-> CHOOSE a \in Arrays(shape, {FInt(0)}) : TRUE]

\* the evaluations of a Model: np.zeros(N)
EvaluationsOfOne(N) == Zeros(<<N>>)

\* a buffer that keeps the sample axis also when N is 1
EvaluationsWithSampleAxis(N, k) == Zeros(<<N, k>>)

\* the evaluations of a list of models: np.zeros((N, len(model))) if N > 1,
\* np.zeros(len(model)) otherwise
EvaluationsOfList(N, k) == IF N > 1 THEN Zeros(<<N, k>>) ELSE Zeros(<<k>>)

\* a check of theta that does not compare the lengths
ThetaErrorTypeOnly(model, theta) ==
    IF theta.form = "single"
    THEN "AssertionError: If a list of models is passed theta must be a list of parameters"
    ELSE "none"

\* the assertions on theta for a list of models
ThetaError(model, theta) ==
    IF theta.form = "none" THEN "none"
    ELSE IF theta.form # "list"
    THEN "AssertionError: If a list of models is passed theta must be a list of parameters"
    ELSE IF Len(model.items) # Len(theta.items)
    THEN "AssertionError: there should equally many models as parameters"
    ELSE "none"

\* the assertion on fitter for a list of models
FitterError(model, fitter) ==
    IF fitter.form = "list" /\ Len(fitter.items) # Len(model.items)
    THEN "AssertionError: if fitters are passed there should be as many as models"
    ELSE "none"

\* theta = [None] * len(model) when theta is None
NormalizedTheta(model, theta) ==
    IF theta.form = "none" THEN ListOf(Repeat(PyNone, Len(model.items))) ELSE theta

\* the list that fitter is bound to before the loop
FitterList(model, fitter) ==
    IF fitter.form = "none" THEN Repeat(PyNone, Len(model.items))
    ELSE IF fitter.form = "list" THEN fitter.items
    ELSE Repeat(fitter.value, Len(model.items))

\* a loop that fills in nothing
KeepFitters(model, fitters) == fitters

\* for k in range(len(model)):
\*     if fitter[k] is None: fitter[k] = model[k].default_fitter
FillDefaultFitters(model, fitters) ==
    [k \in DOMAIN fitters |->
        IF fitters[k] = PyNone THEN model.items[k].default_fitter ELSE fitters[k]]

Raise(e) == [raised |-> e, value |-> <<>>]

\* input_check_model(model, theta, fitter, N): what is returned or raised,
\* and the contents of the caller's fitter object afterwards (a list that is
\* passed in is the list the loop assigns to)
input_check_model(model, theta, fitter, N) ==
    IF model.form = "Model"
    THEN [ret |-> [raised |-> "none",
                   value |-> [evaluations |-> EvaluationsOfOne(N),
                              theta |-> theta, fitter |-> fitter]],
          fitter_object |-> fitter]
    ELSE IF model.form = "list"
    THEN IF ThetaError(model, theta) # "none"
         THEN [ret |-> Raise(ThetaError(model, theta)), fitter_object |-> fitter]
         ELSE IF FitterError(model, fitter) # "none"
         THEN [ret |-> Raise(FitterError(model, fitter)), fitter_object |-> fitter]
         ELSE LET filled == ListOf(FillDefaultFitters(model, FitterList(model, fitter)))
              IN  [ret |-> [raised |-> "none",
                            value |-> [evaluations |->
                                           EvaluationsOfList(N, Len(model.items)),
                                       theta |-> NormalizedTheta(model, theta),
                                       fitter |-> filled]],
                   fitter_object |-> IF fitter.form = "list" THEN filled ELSE fitter]
    ELSE [ret |-> Raise("ValueError: model should be a pyrsa.model.Model or a list of such objects"),
          fitter_object |-> fitter]

----------------------------------------------------------------------------
(* Inputs of input_check_model                                             *)

\* the largest number of models, of parameter sets and of fitters in a list
MaxModels == 3

\* the largest number of samples N
MaxN == 2

TheModel(k) == [name |-> k, default_fitter |-> <<"default_fitter", k>>]

\* one Model, a list of 1..MaxModels Models, or an object that is neither
ModelArgs ==
    {[form |-> "Model", items |-> <<TheModel(1)>>],
     [form |-> "other", items |-> <<>>]}
    \cup {[form |-> "list", items |-> [k \in 1..n |-> TheModel(k)]] : n \in 1..MaxModels}

\* None, a number, or a list of 1..MaxModels parameter sets
ThetaArgs ==
    {Absent, Single(<<"theta", 0>>)}
    \cup {ListOf([k \in 1..n |-> <<"theta", k>>]) : n \in 1..MaxModels}

\* None, one fitting function, or a list of 1..MaxModels entries, each a
\* fitting function or None
FitterArgs ==
    {Absent, Single(<<"fitter", 0>>)}
    \cup UNION {{ListOf(f) : f \in [1..n -> {PyNone, <<"fitter", 0>>}]} :
                    n \in 1..MaxModels}

InitCheck ==
    /\ pc = "ready"
    /\ op = "input_check_model"
    /\ \E model \in ModelArgs : \E theta \in ThetaArgs : \E fitter \in FitterArgs :
       \E N \in 1..MaxN :
          /\ args = [model |-> model, theta |-> theta, fitter |-> fitter, N |-> N]
          /\ heap = args
    /\ ret = NoReturn
    /\ notices = <<>>

InputCheckModel ==
    /\ pc = "ready"
    /\ op = "input_check_model"
    /\ LET r == input_check_model(heap.model, heap.theta, heap.fitter, heap.N)
       IN  /\ ret' = r.ret
           /\ heap' = [heap EXCEPT !.fitter = r.fitter_object]
    /\ pc' = "done"
    /\ UNCHANGED <<op, args, notices>>

SpecCheck == InitCheck /\ [][InputCheckModel]_vars

\* every operation of the module that takes argument objects
SpecCore ==
    /\ InitCheck \/ InitPool \/ InitPair \/ InitTTests \/ InitTTest0 \/ InitTTestNc
    /\ [][InputCheckModel \/ PoolRdm \/ PairTests \/ TTests \/ TTest0 \/ TTestNc]_vars

----------------------------------------------------------------------------
(* default_k_pattern and default_k_rdm                                     *)

\* a staircase whose steps are those of default_k_rdm
default_k_pattern_with_rdm_steps(n_pattern) ==
    IF n_pattern < 6 THEN 2
    ELSE IF n_pattern < 12 THEN 3
    ELSE IF n_pattern < 20 THEN 4
    ELSE 5

default_k_pattern(n_pattern) ==
    IF n_pattern < 12 THEN 2
    ELSE IF n_pattern < 24 THEN 3
    ELSE IF n_pattern < 40 THEN 4
    ELSE 5

default_k_rdm(n_rdm) ==
    IF n_rdm < 6 THEN 2
    ELSE IF n_rdm < 12 THEN 3
    ELSE IF n_rdm < 20 THEN 4
    ELSE 5

\* the largest number of patterns and of RDMs
MaxCount == 45

InitKPattern ==
    /\ pc = "ready"
    /\ op = "default_k_pattern"
    /\ \E n \in 0..MaxCount :
          /\ args = [n_pattern |-> n]
          /\ heap = args
    /\ ret = NoReturn
    /\ notices = <<>>

InitKRdm ==
    /\ pc = "ready"
    /\ op = "default_k_rdm"
    /\ \E n \in 0..MaxCount :
          /\ args = [n_rdm |-> n]
          /\ heap = args
    /\ ret = NoReturn
    /\ notices = <<>>

DefaultKPattern ==
    /\ pc = "ready"
    /\ op = "default_k_pattern"
    /\ ret' = [raised |-> "none", value |-> default_k_pattern(heap.n_pattern)]
    /\ pc' = "done"
    /\ UNCHANGED <<op, args, heap, notices>>

DefaultKRdm ==
    /\ pc = "ready"
    /\ op = "default_k_rdm"
    /\ ret' = [raised |-> "none", value |-> default_k_rdm(heap.n_rdm)]
    /\ pc' = "done"
    /\ UNCHANGED <<op, args, heap, notices>>

SpecK ==
    /\ InitKPattern \/ InitKRdm
    /\ [][DefaultKPattern \/ DefaultKRdm]_vars

----------------------------------------------------------------------------
(* _nan_rank_data called on its own                                        *)

\* the largest number of entries of a row
MaxColumns == 4

\* the entries of a row: three dissimilarities and the mask value
RowEntries == {FInt(1), FInt(3), FInt(7), NaN}

InitRank ==
    /\ pc = "ready"
    /\ op = "_nan_rank_data"
    /\ \E k \in 1..MaxColumns : \E v \in Vectors(k, RowEntries) :
          /\ args = [rdm_vector |-> v]
          /\ heap = args
    /\ ret = NoReturn
    /\ notices = <<>>

NanRankData ==
    /\ pc = "ready"
    /\ op = "_nan_rank_data"
    /\ ret' = [raised |-> "none", value |-> nan_rank_data(heap.rdm_vector)]
    /\ pc' = "done"
    /\ UNCHANGED <<op, args, heap, notices>>

SpecRank == InitRank /\ [][NanRankData]_vars

----------------------------------------------------------------------------
(* plot_model_comparison (src/pyrsa/vis/model_plot.py): the marking of the  *)
(* significant model pairs and the call of the function that draws them.   *)
(* A Python value is <<type, text>>.  batch_to_vectors                     *)
(* (pyrsa/util/rdm_utils.py) is modelled from its description: the entries *)
(* above the diagonal, row by row.                                         *)

Str(s) == <<"str", s>>

\* Python's False
PyFalse == <<"bool", "False">>

\* bool(x): False and the empty string are falsy
Truthy(x) == x # PyFalse /\ x # Str("")

\* str.lower() of the option names
Lower(s) ==
    CASE s \in {"FDR", "Fdr", "fdr"} -> "fdr"
      [] s \in {"Bonferroni", "BONFERRONI", "bonferroni"} -> "bonferroni"
      [] s \in {"FWER", "fwer"} -> "fwer"
      [] s \in {"None", "none"} -> "none"
      [] s \in {"Arrows", "arrows"} -> "arrows"
      [] s \in {"Nili", "nili"} -> "nili"
      [] s \in {"Golan", "golan"} -> "golan"
      [] OTHER -> s   \* every other name of the model is in lower case

\* x.lower(): a bool has no such attribute
HasLower(x) == x[1] = "str"

\* batch_to_vectors(np.array([res]))[0][0]
batch_to_vectors(res, n) ==
    [r \in 1..NPairs(n) |-> res[PairOf(r, n)[1]][PairOf(r, n)[2]]]

\* a sorts before b in np.sort: ascending, NaN last
Precedes(a, b) == ~IsNaN(a) /\ (IsNaN(b) \/ FLess(a, b))

RemoveAt(v, k) == [l \in 1..(Len(v) - 1) |-> IF l < k THEN v[l] ELSE v[l + 1]]

\* np.sort(ps)
RECURSIVE Sort(_)
Sort(v) ==
    IF Len(v) = 0 THEN <<>>
    ELSE LET k == CHOOSE k \in DOMAIN v : \A l \in DOMAIN v : ~Precedes(v[l], v[k])
         IN  <<v[k]>> \o Sort(RemoveAt(v, k))

\* alpha * (np.arange(ps.shape[0]) + 1) / ps.shape[0]
Criterion(alpha, m) == [k \in 1..m |-> FDiv(FMul(alpha, FInt(k)), FInt(m))]

\* crit of the 'fdr' branch
FdrThreshold(res, n, alpha) ==
    LET ps        == Sort(batch_to_vectors(res, n))
        criterion == Criterion(alpha, Len(ps))
        k_ok      == {k \in DOMAIN ps : FLess(ps[k], criterion[k])}
    IN  IF k_ok # {}
        THEN criterion[CHOOSE k \in k_ok : \A l \in k_ok : l <= k]
        ELSE FInt(0)

\* res < threshold
BelowThreshold(res, threshold) ==
    [i \in DOMAIN res |-> [j \in DOMAIN res[i] |-> FLess(res[i][j], threshold)]]

\* the branch of the if/elif chain on multiple_testing.lower()
TestingBranch(multiple_testing) ==
    IF Lower(multiple_testing[2]) \in {"bonferroni", "fwer"} THEN "bonferroni"
    ELSE IF Lower(multiple_testing[2]) = "fdr" THEN "fdr"
    ELSE "uncorrected"

\* significant, for a multiple_testing that is a string
Significant(res, n, alpha, multiple_testing) ==
    LET n_tests == (n * n - n) \div 2
        branch  == TestingBranch(multiple_testing)
    IN  IF branch = "bonferroni"
        THEN BelowThreshold(res, FDiv(alpha, FInt(n_tests)))
        ELSE IF branch = "fdr"
        THEN BelowThreshold(res, FdrThreshold(res, n, alpha))
        ELSE BelowThreshold(res, alpha)

----------------------------------------------------------------------------
(* plot_nili_bars, plot_golan_bars and plot_arrows.  The axes are the       *)
(* sequence or set of what has been drawn into them.  Indices are Python's *)
(* (from 0): entry [i, j] of a matrix M is M[i + 1][j + 1].                *)

\* significant[rows, cols].all() and .any() of a block (all of an empty
\* block is True, any of it is False)
BlockAll(M, rows, cols) == \A i \in rows : \A j \in cols : M[i + 1][j + 1]

BlockAny(M, rows, cols) == \E i \in rows : \E j \in cols : M[i + 1][j + 1]

\* remaining[rows, cols] = 0
BlockClear(M, rows, cols) ==
    [i \in DOMAIN M |-> [j \in DOMAIN M[i] |->
        IF (i - 1) \in rows /\ (j - 1) \in cols THEN FALSE ELSE M[i][j]]]

RECURSIVE Flatten(_)
Flatten(ss) == IF Len(ss) = 0 THEN <<>> ELSE ss[1] \o Flatten(Tail(ss))

\* the bars of plot_nili_bars: one <<i, j, k>> per significant pair i < j,
\* k counting the rows begun and the bars drawn before
plot_nili_bars(significant) ==
    LET n == Len(significant)
        before(r) == Cardinality({q \in 1..(r - 1) :
                         significant[PairOf(q, n)[1]][PairOf(q, n)[2]]})
    IN  [raised |-> "none",
         drawn  |-> {<<"bar", PairOf(r, n)[1] - 1, PairOf(r, n)[2] - 1,
                       1 + PairOf(r, n)[1] + before(r)>> :
                        r \in {q \in 1..NPairs(n) :
                                  significant[PairOf(q, n)[1]][PairOf(q, n)[2]]}}]

\* the bars and ticks of plot_golan_bars: for every row i with a significant
\* entry right of the diagonal a bar from i to the last significant column
\* of the row, and a tick at every significant j > i
plot_golan_bars(significant) ==
    LET n == Len(significant)
        rows == {i \in 0..(n - 1) : BlockAny(significant, {i}, (i + 1)..(n - 1))}
        last(i) == CHOOSE j \in 0..(n - 1) :
                       /\ significant[i + 1][j + 1]
                       /\ \A l \in 0..(n - 1) : significant[i + 1][l + 1] => l <= j
    IN  [raised |-> "none",
         drawn  |-> {<<"bar", i, last(i), i + 1>> : i \in rows}
                    \cup {<<"tick", q[1], q[2], q[1] + 1>> :
                             q \in {r \in rows \X (0..(n - 1)) :
                                       r[2] > r[1] /\ significant[r[1] + 1][r[2] + 1]}}]

\* the iterations <<ambiguity_span, i>> of the double-arrow loops
DoubleArrowSteps(n) ==
    Flatten([s \in 1..(n - 1) |-> [k \in 1..(n - s) |-> <<s - 1, n - k>>]])

\* the double-arrow loops: c is [remaining, captured]
RECURSIVE CaptureDoubleArrows(_, _, _, _)
CaptureDoubleArrows(steps, significant, n, c) ==
    IF Len(steps) = 0 THEN c
    ELSE LET span == steps[1][1]
             i    == steps[1][2]
             rows == i..(n - 1)
             cols == 0..(i - span - 1)
         IN  CaptureDoubleArrows(Tail(steps), significant, n,
                IF BlockAll(significant, rows, cols) /\ BlockAny(c.remaining, rows, cols)
                THEN [remaining |-> BlockClear(c.remaining, rows, cols),
                      captured  |-> Append(c.captured, <<i - span - 1, i>>)]
                ELSE c)

\* the iterations <<dist2diag, i>> of the arrow loops
ArrowSteps(n) ==
    Flatten([d \in 1..(n - 1) |-> [k \in 1..(n - d) |-> <<d, n - k>>]])

\* one iteration of the arrow loops: the left arrow, then the right arrow
CaptureArrowsOf(step, significant, n, c) ==
    LET d    == step[1]
        i    == step[2]
        left == IF /\ BlockAll(significant, {i}, 0..(i - d))
                   /\ BlockAny(c.remaining, {i}, 0..(i - d))
                THEN [remaining |-> BlockClear(c.remaining, {i}, 0..(i - d)),
                      captured  |-> Append(c.captured, <<i, i - d>>)]
                ELSE c
    IN  IF /\ BlockAll(significant, i..(n - 2), {i - d})
           /\ BlockAny(left.remaining, i..(n - 2), {i - d})
        THEN [remaining |-> BlockClear(left.remaining, i..(n - 2), {i - d}),
              captured  |-> Append(left.captured, <<i - d, i>>)]
        ELSE left

RECURSIVE CaptureArrows(_, _, _, _)
CaptureArrows(steps, significant, n, c) ==
    IF Len(steps) = 0 THEN c
    ELSE CaptureArrows(Tail(steps), significant, n,
                       CaptureArrowsOf(steps[1], significant, n, c))

\* the iterations <<i, j>> of the line loops: i in 1..n-1, j in 0..i-2
LineSteps(n) ==
    Flatten([i \in 1..(n - 1) |-> [k \in 1..(i - 1) |-> <<i, k - 1>>]])

\* lines: the pairs of the line loops that remain
RECURSIVE CaptureLines(_, _)
CaptureLines(steps, remaining) ==
    IF Len(steps) = 0 THEN <<>>
    ELSE (IF remaining[steps[1][1] + 1][steps[1][2] + 1] THEN <<steps[1]>> ELSE <<>>)
         \o CaptureLines(Tail(steps), remaining)

----------------------------------------------------------------------------
(* plot_arrows, the drawing.  q is [double_arrows, arrows, lines, occupied, *)
(* drawn, raised]: the three lists, the rows of occupied as the sets of    *)
(* their columns that hold 1, the sequence of what has been drawn, and the *)
(* exception raised so far ("none" if none).                               *)

\* the columns of the slice a:b
Slice(a, b) == a..(b - 1)

\* list.remove(x): the list without its first x
RECURSIVE Remove(_, _)
Remove(list, x) ==
    IF Len(list) = 0 THEN <<>>
    ELSE IF list[1] = x THEN Tail(list)
    ELSE <<list[1]>> \o Remove(Tail(list), x)

\* k = 1; while occupied[k-1, cols].any(): k += 1
\* (Len(occupied) + 1 stands for an index past the last row)
FreeRow(occupied, cols) ==
    CHOOSE k \in 1..(Len(occupied) + 1) :
        /\ k = Len(occupied) + 1 \/ occupied[k] \cap cols = {}
        /\ \A l \in 1..(k - 1) : occupied[l] \cap cols # {}

\* the search for a free row, the drawing and occupied[k-1, set] = 1
Place(q, shape, i, j, check, set) ==
    LET k == FreeRow(q.occupied, check)
    IN  IF k > Len(q.occupied)
        THEN [q EXCEPT !.raised = "IndexError"]
        ELSE [q EXCEPT !.drawn = Append(@, <<shape, i, j, k>>),
                       !.occupied[k] = @ \cup set]

\* '->' from the first model, '<-' to the last model, '<->' otherwise
DoubleArrowStyle(i, j, n) ==
    IF i = 0 THEN "->" ELSE IF j = n - 1 THEN "<-" ELSE "<->"

\* the first double arrow among the candidates, if there is one
PlaceDoubleArrow(q, cands, n) ==
    IF q.raised # "none" \/ Len(cands) = 0 THEN q
    ELSE LET lo == IF cands[1][2] < cands[1][1] THEN cands[1][2] ELSE cands[1][1]
             hi == IF cands[1][2] < cands[1][1] THEN cands[1][1] ELSE cands[1][2]
         IN  Place([q EXCEPT !.double_arrows = Remove(@, cands[1])],
                   DoubleArrowStyle(lo, hi, n), lo, hi,
                   Slice(lo * 3 + 2, hi * 3), Slice(lo * 3 + 2, hi * 3 + 1))

\* the right-hand double arrow: no exchange of i and j
PlaceDoubleArrowRight(q, cands, n) ==
    IF q.raised # "none" \/ Len(cands) = 0 THEN q
    ELSE LET i == cands[1][1]
             j == cands[1][2]
         IN  Place([q EXCEPT !.double_arrows = Remove(@, cands[1])],
                   DoubleArrowStyle(i, j, n), i, j,
                   Slice(i * 3 + 2, j * 3), Slice(i * 3 + 2, j * 3 + 1))

\* for m in range(0, int(np.ceil(n/2))): the double arrows
RECURSIVE DrawDoubleArrows(_, _, _)
DrawDoubleArrows(q, m, n) ==
    IF m >= (n + 1) \div 2 THEN q
    ELSE LET left  == PlaceDoubleArrow(q,
                          SelectSeq(q.double_arrows, LAMBDA a : a[1] = m), n)
             right == PlaceDoubleArrowRight(left,
                          SelectSeq(left.double_arrows, LAMBDA a : a[2] = n - 1 - m), n)
         IN  DrawDoubleArrows(right, m + 1, n)

PlaceArrow(q, cands) ==
    IF q.raised # "none" \/ Len(cands) = 0 THEN q
    ELSE LET i == cands[1][1]
             j == cands[1][2]
         IN  Place([q EXCEPT !.arrows = Remove(@, cands[1])], "->", i, j,
                   Slice(i * 3 + 2, j * 3), Slice(i * 3 + 2, j * 3 + 1))

\* for m in range(0, int(np.ceil(n/2))): the arrows
RECURSIVE DrawArrows(_, _, _)
DrawArrows(q, m, n) ==
    IF m >= (n + 1) \div 2 THEN q
    ELSE LET left  == PlaceArrow(q, SelectSeq(q.arrows, LAMBDA a :
                          (a[1] < a[2] /\ a[1] = m) \/ (a[2] < a[1] /\ a[2] = m)))
             right == PlaceArrow(left, SelectSeq(left.arrows, LAMBDA a :
                          \/ (a[1] < a[2] /\ a[2] = n - 1 - m)
                          \/ (a[2] < a[1] /\ a[1] = n - 1 - m)))
         IN  DrawArrows(right, m + 1, n)

\* while len(cands): i, j = cands.pop(); lines.remove((i, j)); ...
RECURSIVE PlaceLines(_, _)
PlaceLines(q, cands) ==
    IF q.raised # "none" \/ Len(cands) = 0 THEN q
    ELSE LET i == cands[Len(cands)][1]
             j == cands[Len(cands)][2]
         IN  PlaceLines(Place([q EXCEPT !.lines = Remove(@, cands[Len(cands)])],
                              "line", i, j,
                              Slice(i * 3 + 2, j * 3), Slice(i * 3 + 2, j * 3)),
                        SubSeq(cands, 1, Len(cands) - 1))

\* for m in range(0, int(np.ceil(n/2))): the lines
RECURSIVE DrawLines(_, _, _)
DrawLines(q, m, n) ==
    IF m >= (n + 1) \div 2 THEN q
    ELSE LET left  == PlaceLines(q, SelectSeq(q.lines, LAMBDA a : a[1] = m))
             right == PlaceLines(left,
                          SelectSeq(left.lines, LAMBDA a : a[2] = n - 1 - m))
         IN  DrawLines(right, m + 1, n)

\* h = occupied.sum(axis=1).nonzero()[0].max() + 1: the maximum of an empty
\* array raises
Height(q) ==
    IF q.raised # "none" THEN q
    ELSE IF \A k \in DOMAIN q.occupied : q.occupied[k] = {}
    THEN [q EXCEPT !.raised = "ValueError: zero-size array to reduction operation maximum which has no identity"]
    ELSE q

\* plot_arrows(axbar, significant)
plot_arrows(significant) ==
    LET n       == Len(significant)
        doubles == CaptureDoubleArrows(DoubleArrowSteps(n), significant, n,
                       [remaining |-> significant, captured |-> <<>>])
        singles == CaptureArrows(ArrowSteps(n), significant, n,
                       [remaining |-> doubles.remaining, captured |-> <<>>])
        lines   == CaptureLines(LineSteps(n), singles.remaining)
        rows    == Len(doubles.captured) + Len(singles.captured) + Len(lines)
        q0      == [double_arrows |-> doubles.captured,
                    arrows        |-> singles.captured,
                    lines         |-> lines,
                    occupied      |-> [k \in 1..rows |-> {}],
                    drawn         |-> <<>>,
                    raised        |-> "none"]
        q       == Height(DrawLines(DrawArrows(DrawDoubleArrows(q0, 0, n), 0, n), 0, n))
    IN  [raised |-> q.raised,
         drawn  |-> q.drawn,
         double_arrows |-> doubles.captured,
         arrows |-> singles.captured,
         lines  |-> lines]

----------------------------------------------------------------------------
(* plot_model_comparison from the p-values on, and its inputs.  The        *)
(* evaluations of the result enter only through res = pair_tests(...), so  *)
(* the call is given res: a symmetric matrix with a unit diagonal whose    *)
(* other entries are p-values pair_tests returns for 100 bootstrap samples *)
(* (1/100, 3/100, 1/2) or NaN (all samples of the pair tied).              *)

\* plot_model_comparison: the exception raised, the matrix significant (<<>>
\* while it is not assigned) and what is drawn into axbar
plot_model_comparison(res, alpha, plot_pair_tests, multiple_testing) ==
    IF ~Truthy(plot_pair_tests) \/ plot_pair_tests = Str("none")
    THEN [raised |-> "none", significant |-> <<>>, drawn |-> {}]
    ELSE IF ~HasLower(multiple_testing)
    THEN [raised |-> "AttributeError: 'bool' object has no attribute 'lower'",
          significant |-> <<>>, drawn |-> {}]
    ELSE LET significant == Significant(res, Len(res), alpha, multiple_testing)
             style       == Lower(plot_pair_tests[2])
             plotted     == IF style = "nili" THEN plot_nili_bars(significant)
                            ELSE IF style = "golan" THEN plot_golan_bars(significant)
                            ELSE IF style = "arrows"
                            THEN LET a == plot_arrows(significant)
                                 IN  [raised |-> a.raised,
                                      drawn  |-> {a.drawn[k] : k \in DOMAIN a.drawn}]
                            ELSE [raised |-> "none", drawn |-> {}]
         IN  [raised |-> plotted.raised, significant |-> significant,
              drawn |-> plotted.drawn]

\* the numbers of models of a plot
PlotSizes == {2, 3}

PValues == {Frac(1, 100), Frac(3, 100), Frac(1, 2), NaN}

\* the matrices pair_tests returns
PValueMatrices(n) ==
    {M \in [1..n -> [1..n -> PValues \cup {FInt(1)}]] :
        /\ \A i \in 1..n : M[i][i] = FInt(1)
        /\ \A i \in 1..n : \A j \in 1..n : i # j => M[i][j] \in PValues
        /\ \A i \in 1..n : \A j \in 1..n : M[i][j] = M[j][i]}

Alphas == {Frac(5, 100), Frac(1, 2)}

PlotPairTestsArgs ==
    {PyFalse, Str("none"), Str("arrows"), Str("Arrows"), Str("nili"), Str("golan")}

MultipleTestingArgs ==
    {PyFalse, Str("none"), Str("FDR"), Str("fdr"), Str("Fdr"), Str("Bonferroni"),
     Str("bonferroni"), Str("FWER"), Str("fwer"), Str("holm")}

\* the boolean matrices plot_arrows is called with: every matrix of 2 or 3
\* models, and the symmetric ones with a False diagonal of 4 models
BooleanMatrices(n) ==
    IF n < 4 THEN [1..n -> [1..n -> BOOLEAN]]
    ELSE {M \in [1..n -> [1..n -> BOOLEAN]] :
             /\ \A i \in 1..n : ~M[i][i]
             /\ \A i \in 1..n : \A j \in 1..n : M[i][j] = M[j][i]}

ArrowSizes == {2, 3, 4}

InitPlotModelComparison ==
    /\ pc = "ready"
    /\ op = "plot_model_comparison"
    /\ \E n \in PlotSizes : \E res \in PValueMatrices(n) : \E alpha \in Alphas :
       \E plot_pair_tests \in PlotPairTestsArgs :
       \E multiple_testing \in MultipleTestingArgs :
          /\ args = [res |-> res, alpha |-> alpha,
                     plot_pair_tests |-> plot_pair_tests,
                     multiple_testing |-> multiple_testing]
          /\ heap = [significant |-> <<>>, axbar |-> {}]
    /\ ret = NoReturn
    /\ notices = <<>>

InitPlotArrows ==
    /\ pc = "ready"
    /\ op = "plot_arrows"
    /\ \E n \in ArrowSizes : \E significant \in BooleanMatrices(n) :
          /\ args = [significant |-> significant]
          /\ heap = [significant |-> significant, axbar |-> {}]
    /\ ret = NoReturn
    /\ notices = <<>>

PlotModelComparison ==
    /\ pc = "ready"
    /\ op = "plot_model_comparison"
    /\ LET r == plot_model_comparison(args.res, args.alpha, args.plot_pair_tests,
                                      args.multiple_testing)
       IN  /\ ret' = [raised |-> r.raised, value |-> <<>>]
           /\ heap' = [significant |-> r.significant, axbar |-> r.drawn]
    /\ pc' = "done"
    /\ UNCHANGED <<op, args, notices>>

PlotArrows ==
    /\ pc = "ready"
    /\ op = "plot_arrows"
    /\ LET r == plot_arrows(heap.significant)
       IN  /\ ret' = [raised |-> r.raised, value |-> <<>>]
           /\ heap' = [heap EXCEPT !.axbar = {r.drawn[k] : k \in DOMAIN r.drawn}]
    /\ pc' = "done"
    /\ UNCHANGED <<op, args, notices>>

SpecPlot ==
    /\ InitPlotModelComparison \/ InitPlotArrows
    /\ [][PlotModelComparison \/ PlotArrows]_vars

----------------------------------------------------------------------------
(* Claims about pair_tests                                                 *)

PairReturned == pc = "done" /\ op = "pair_tests" /\ ret.raised = "none"

\* C1: for every evaluation tensor with at least 2 models (2-D or with
\* trailing axes), the matrix pair_tests returns is square over the models,
\* holds the same value at [i, j] and at [j, i] for all i, j (an entry that
\* is undefined is undefined at both places), and holds exactly 1 on its
\* diagonal.
C1_SymmetricUnitDiagonal ==
    PairReturned =>
        LET P == ret.value
            m == args.evaluations.shape[2]
        IN  /\ DOMAIN P = 1..m
            /\ \A i \in 1..m : DOMAIN P[i] = 1..m
            /\ \A i \in 1..m : \A j \in 1..m : P[i][j] = P[j][i]
            /\ \A i \in 1..m : P[i][i] = FInt(1)

\* C1's case: a returned matrix of 3 models from a tensor with trailing axes
\* or several samples, with an off-diagonal p-value that is defined and not 1
C1_Witness ==
    /\ PairReturned
    /\ args.evaluations.shape[2] = 3
    /\ args.evaluations.shape[1] >= 2
    /\ \E i \in 1..3 : \E j \in 1..3 :
          i # j /\ IsFinite(ret.value[i][j]) /\ ret.value[i][j] # FInt(1)

\* C2: with n samples no entry of the matrix pair_tests returns is less than
\* 1/n, and no entry is exactly 0.
C2_AtLeastOneOverN ==
    PairReturned =>
        LET P == ret.value
            n == args.evaluations.shape[1]
        IN  \A i \in DOMAIN P : \A j \in DOMAIN P[i] :
               /\ ~FLess(P[i][j], Frac(1, n))
               /\ P[i][j] # FInt(0)

\* C2's case: model i beats model j in every one of n >= 2 samples, and the
\* entry is exactly 1/n
C2_Witness ==
    /\ PairReturned
    /\ args.evaluations.shape[1] >= 2
    /\ \E i \in DOMAIN ret.value : \E j \in DOMAIN ret.value :
          i # j /\ ret.value[i][j] = Frac(1, args.evaluations.shape[1])

\* the sum of all entries of an array of ndim axes
RECURSIVE Total(_, _)
Total(x, ndim) ==
    IF ndim = 0 THEN x
    ELSE FSum([k \in DOMAIN x |-> Total(x[k], ndim - 1)])

RECURSIVE Product(_)
Product(s) == IF Len(s) = 0 THEN 1 ELSE s[1] * Product(Tail(s))

\* the score of model i in sample k, averaged over all trailing axes
AveragedScore(t, k, i) ==
    FDiv(Total(t.data[k][i], Len(t.shape) - 2),
         FInt(Product(SubSeq(t.shape, 3, Len(t.shape)))))

\* (n-1)/n * 2*min(q, 1-q) + 1/n with q = less / (n - ties)
ExpectedPairP(t, i, j) ==
    LET n    == t.shape[1]
        less == Cardinality({k \in 1..n :
                    FLess(AveragedScore(t, k, i), AveragedScore(t, k, j))})
        ties == Cardinality({k \in 1..n :
                    AveragedScore(t, k, i) = AveragedScore(t, k, j)})
        q    == Frac(less, n - ties)
        mn   == IF IsNaN(q) THEN NaN
                ELSE IF FLess(q, FSub(FInt(1), q)) THEN q ELSE FSub(FInt(1), q)
    IN  FAdd(FMul(Frac(n - 1, n), FMul(FInt(2), mn)), Frac(1, n))

\* C4: for every pair of distinct models i < j, pair_tests returns at [i, j]
\* and at [j, i] the value (n-1)/n * 2*min(q, 1-q) + 1/n, where q is the
\* number of samples in which model i's averaged score is strictly less than
\* model j's, divided by n minus the number of samples in which the two are
\* equal (undefined when all n samples are tied).
C4_PairValue ==
    PairReturned =>
        LET t == args.evaluations
            m == t.shape[2]
        IN  \A i \in 1..m : \A j \in 1..m :
               i < j => /\ ret.value[i][j] = ExpectedPairP(t, i, j)
                        /\ ret.value[j][i] = ExpectedPairP(t, i, j)

\* C4's case: a pair with a tied sample, a sample won and a sample lost
C4_Witness ==
    /\ PairReturned
    /\ LET t == args.evaluations
           n == t.shape[1]
       IN  \E i \in 1..t.shape[2] : \E j \in 1..t.shape[2] :
              /\ i < j
              /\ \E k \in 1..n : AveragedScore(t, k, i) = AveragedScore(t, k, j)
              /\ \E k \in 1..n : FLess(AveragedScore(t, k, i), AveragedScore(t, k, j))
              /\ \E k \in 1..n : FLess(AveragedScore(t, k, j), AveragedScore(t, k, i))
              /\ ret.value[i][j] = FInt(1)

----------------------------------------------------------------------------
(* Claims about all four tests                                             *)

\* a float that is a number of the closed interval [0, 1]
InUnitInterval(x) == IsFinite(x) /\ FLeq(FInt(0), x) /\ FLeq(x, FInt(1))

\* a tail probability of the t distribution that is defined
DefinedP(p) == ~p.nan /\ p.dof > 0

\* C3: every p-value returned by pair_tests, t_tests, t_test_0 and t_test_nc
\* is a defined number of [0, 1], for every input with finite evaluations and
\* variances.
C3_PValuesInUnitInterval ==
    (pc = "done" /\ ret.raised = "none") =>
        /\ op = "pair_tests" =>
              \A i \in DOMAIN ret.value : \A j \in DOMAIN ret.value[i] :
                  InUnitInterval(ret.value[i][j])
        /\ op = "t_tests" =>
              \A i \in DOMAIN ret.value : \A j \in DOMAIN ret.value[i] :
                  DefinedP(ret.value[i][j])
        /\ op \in {"t_test_0", "t_test_nc"} =>
              \A i \in DOMAIN ret.value : DefinedP(ret.value[i])

----------------------------------------------------------------------------
(* Claims about pool_rdm                                                   *)

PoolReturned == pc = "done" /\ op = "pool_rdm" /\ ret.raised = "none"

\* the per-row transform the documentation gives a metric
RowTransformed(vec, method) ==
    CASE method = "euclid" -> vec
      [] method \in {"cosine", "cosine_cov"} -> UnitMeanSquare(vec)
      [] method \in {"corr", "corr_cov"} -> UnitStd(Centered(vec))
      [] method \in {"spearman", "rho-a", "kendall", "tau-b", "tau-a"} -> Ranked(vec)

\* a mean over the rows that ignores NaN column by column
NanMeanPerColumn(vec) ==
    <<[c \in DOMAIN vec[1] |-> NanMean([r \in DOMAIN vec |-> vec[r][c]])]>>

\* the pooled vector of a NaN-ignoring reduction
NanIgnoringPool(vec, method) ==
    IF method \in {"corr", "corr_cov"}
    THEN ShiftToZero(NanMeanPerColumn(RowTransformed(vec, method)))
    ELSE NanMeanPerColumn(RowTransformed(vec, method))

\* every row has a defined normalization: its transformed values are NaN
\* only where the row itself is NaN (no row of zero norm or zero spread)
NormalizationDefined(vec, method) ==
    \A r \in DOMAIN vec : \A c \in DOMAIN vec[r] :
        IsNaN(RowTransformed(vec, method)[r][c]) <=> IsNaN(vec[r][c])

\* C5: for every supported metric and every collection (whose rows can be
\* normalized), the vector pool_rdm returns is NaN at column c if and only
\* if every input row is NaN at column c, and at every other column it is
\* the mean of the per-row transformed values of the rows that are not NaN
\* at that column, whichever row holds the NaN.
C5_NanOnlyWhereAllRowsNan ==
    (PoolReturned /\ NormalizationDefined(args.rdms.dissimilarities, args.method)) =>
        LET vec    == args.rdms.dissimilarities
            pooled == ret.value.dissimilarities[1]
        IN  \A c \in DOMAIN vec[1] :
               /\ IsNaN(pooled[c]) <=> \A r \in DOMAIN vec : IsNaN(vec[r][c])
               /\ pooled[c] = NanIgnoringPool(vec, args.method)[1][c]

\* C6 as stated: for every valid metric, pool_rdm of a collection with one
\* row returns that row unchanged, apart from the per-row normalization of
\* the cosine and corr variants.
C6_SingleRowUnchanged ==
    (PoolReturned /\ Len(args.rdms.dissimilarities) = 1) =>
        LET vec == args.rdms.dissimilarities
        IN  ret.value.dissimilarities =
               (IF args.method \in {"cosine", "cosine_cov"} THEN UnitMeanSquare(vec)
                ELSE IF args.method \in {"corr", "corr_cov"}
                     THEN ShiftToZero(UnitStd(Centered(vec)))
                ELSE vec)

\* C6 as amended: for every valid metric, pool_rdm of a collection with one
\* row returns that row after the metric's per-row transform alone: unchanged
\* for euclid, normalized for the cosine and corr variants, and replaced by
\* its fractional ranks for spearman, rho-a, kendall, tau-b and tau-a.
C6_SingleRowTransformedOnly ==
    (PoolReturned /\ Len(args.rdms.dissimilarities) = 1) =>
        LET vec == args.rdms.dissimilarities
        IN  /\ args.method \in PoolMethods
            /\ ret.value.dissimilarities =
                  (IF args.method \in {"corr", "corr_cov"}
                   THEN ShiftToZero(RowTransformed(vec, args.method))
                   ELSE RowTransformed(vec, args.method))
            /\ args.method = "euclid" => ret.value.dissimilarities = vec

\* C6's case: one row pooled under a rank metric, and the ranks returned are
\* not the dissimilarities of the row
C6_Witness ==
    /\ PoolReturned
    /\ Len(args.rdms.dissimilarities) = 1
    /\ args.method \in {"spearman", "rho-a", "kendall", "tau-b", "tau-a"}
    /\ ret.value.dissimilarities # args.rdms.dissimilarities
    /\ \E c \in DOMAIN ret.value.dissimilarities[1] :
          ~IsNaN(ret.value.dissimilarities[1][c])

\* C7: every call of pool_rdm with metric kendall, tau-b or tau-a emits a
\* notice that the noise ceiling is computed on averaged ranks, returns, and
\* returns what the same call with metric spearman returns.
C7_TauNoticeEmitted ==
    (pc = "done" /\ op = "pool_rdm" /\ args.method \in {"kendall", "tau-b", "tau-a"}) =>
        /\ ret = pool_rdm(args.rdms, "spearman")
        /\ ret.raised = "none"
        /\ \E k \in DOMAIN notices :
              notices[k] = "Noise ceiling for tau based on averaged ranks!"

\* C8: pool_rdm raises the unsupported-method error and returns no RDM
\* collection for every metric name outside {euclid, cosine, cosine_cov,
\* corr, corr_cov, spearman, rho-a, kendall, tau-b, tau-a}, and never raises
\* it for a name inside the set.
C8_UnknownMethodRaises ==
    (pc = "done" /\ op = "pool_rdm") =>
        /\ args.method \notin {"euclid", "cosine", "cosine_cov", "corr", "corr_cov",
                               "spearman", "rho-a", "kendall", "tau-b", "tau-a"}
              <=> ret.raised = "ValueError: Unknown RDM comparison method requested!"
        /\ ret.raised # "none" => ret.value = <<>>
        /\ ret.raised = "none" => Len(ret.value.dissimilarities) = 1

\* C8's case: a name that differs from a supported one only in case is refused
C8_Witness ==
    /\ pc = "done"
    /\ op = "pool_rdm"
    /\ args.method = "Cosine"
    /\ ret.raised = "ValueError: Unknown RDM comparison method requested!"
    /\ ret.value = <<>>

----------------------------------------------------------------------------
(* Claims about input_check_model                                          *)

CheckDone == pc = "done" /\ op = "input_check_model"

\* the number of models of the model argument
NumberOfModels(model) == IF model.form = "Model" THEN 1 ELSE Len(model.items)

Failed == ret.raised # "none" /\ ret.value = <<>>

\* C9 as stated: input_check_model fails with a validation error and returns
\* nothing when the model argument is neither a Model nor an iterable, when
\* a single Model comes with a list of parameters, when a parameter list has
\* another length than the list of models, and when a fitter list has
\* another length than the list of models.
C9_ValidationErrors ==
    CheckDone =>
        /\ args.model.form = "other" => Failed
        /\ (args.model.form = "Model" /\ args.theta.form = "list") => Failed
        /\ (args.model.form = "list" /\ args.theta.form = "list"
               /\ Len(args.theta.items) # Len(args.model.items)) => Failed
        /\ (args.model.form = "list" /\ args.fitter.form = "list"
               /\ Len(args.fitter.items) # Len(args.model.items)) => Failed

\* C9 as amended: input_check_model fails with a validation error and returns
\* nothing exactly when the model argument is neither a Model nor an
\* iterable, or it is a list of models and theta is given but is not a list,
\* or is a list of another length than the list of models, or fitter is a
\* list of another length than the list of models.  With a single Model
\* neither theta nor fitter is checked, and a list of parameters is accepted.
C9_ValidationErrorsOfLists ==
    CheckDone =>
        /\ Failed <=>
              \/ args.model.form = "other"
              \/ /\ args.model.form = "list"
                 /\ \/ args.theta.form = "single"
                    \/ /\ args.theta.form = "list"
                       /\ Len(args.theta.items) # Len(args.model.items)
                    \/ /\ args.fitter.form = "list"
                       /\ Len(args.fitter.items) # Len(args.model.items)
        /\ ~Failed => ret.raised = "none"

\* C9's case: 3 models with 2 parameter sets are refused
C9_Witness ==
    /\ CheckDone
    /\ args.model.form = "list"
    /\ Len(args.model.items) = 3
    /\ args.theta.form = "list"
    /\ Len(args.theta.items) = 2
    /\ Failed

\* the fitter the documentation gives model k
ExpectedFitter(model, fitter, k) ==
    IF fitter.form = "none" THEN model.items[k].default_fitter
    ELSE IF fitter.form = "single" THEN fitter.value
    ELSE IF fitter.items[k] = PyNone THEN model.items[k].default_fitter
    ELSE fitter.items[k]

\* the returned theta and fitter are the normalized per-model lists
PerModelLists ==
    LET n == NumberOfModels(args.model)
    IN  /\ ret.value.theta.form = "list"
        /\ Len(ret.value.theta.items) = n
        /\ args.theta.form = "none" =>
              \A k \in 1..n : ret.value.theta.items[k] = PyNone
        /\ args.theta.form # "none" => ret.value.theta = args.theta
        /\ ret.value.fitter.form = "list"
        /\ Len(ret.value.fitter.items) = n
        /\ \A k \in 1..n :
              /\ ret.value.fitter.items[k] # PyNone
              /\ ret.value.fitter.items[k] = ExpectedFitter(args.model, args.fitter, k)

RECURSIVE Entries(_, _)
Entries(x, ndim) ==
    IF ndim = 0 THEN {x}
    ELSE UNION {Entries(x[k], ndim - 1) : k \in DOMAIN x}

\* the lengths of the axes of nested sequences of ndim axes
RECURSIVE AxisLengths(_, _)
AxisLengths(x, ndim) ==
    IF ndim = 0 THEN <<>>
    ELSE <<Len(x)>> \o AxisLengths(x[1], ndim - 1)

\* C11: the evaluation buffer a successful input_check_model returns holds
\* only zeros, and its shape is (N) for a single Model, (N, number of models)
\* for a list of models with N > 1 and (number of models) for a list of
\* models with N = 1.
C11_EvaluationBuffer ==
    (CheckDone /\ ret.raised = "none") =>
        LET e == ret.value.evaluations
            n == NumberOfModels(args.model)
        IN  /\ e.shape = (IF args.model.form = "Model" THEN <<args.N>>
                          ELSE IF args.N > 1 THEN <<args.N, n>>
                          ELSE <<n>>)
            /\ AxisLengths(e.data, Len(e.shape)) = e.shape
            /\ Entries(e.data, Len(e.shape)) = {FInt(0)}

\* C11's case: a list of 3 models with N = 1 gets a buffer of 3 entries
\* without a sample axis
C11_Witness ==
    /\ CheckDone
    /\ ret.raised = "none"
    /\ args.model.form = "list"
    /\ Len(args.model.items) = 3
    /\ args.N = 1
    /\ ret.value.evaluations.shape = <<3>>

----------------------------------------------------------------------------
(* Claims about the argument objects                                       *)

\* C12: when input_check_model, pool_rdm, pair_tests, t_tests, t_test_0 or
\* t_test_nc has returned or raised, every argument object (the model list,
\* the parameter list, the fitter list the caller passed, also one with None
\* entries, the evaluation tensor, the variance array, the RDM collection)
\* holds exactly the contents it had when it was passed.
C12_ArgumentsUnchanged ==
    pc = "done" => heap = args

----------------------------------------------------------------------------
(* Claims about the t-tests                                                *)

TTestDone == pc = "done" /\ op \in {"t_tests", "t_test_0", "t_test_nc"}

MeanOfModel(t, i) == FMean([k \in 1..t.shape[1] |-> AveragedScore(t, k, i)])

\* the variance of model i: entry i of a variance vector, entry [i, i] of a
\* covariance matrix
VarianceOfModel(variances, i) ==
    IF variances.ndim = 1 THEN variances.data[i] ELSE variances.data[i][i]

\* the statistic x / sqrt(v) as [nan, sgn, sq]: undefined for a negative v
\* and for 0 / 0, infinite for x # 0 and v = 0
Statistic(x, v) ==
    IF IsNaN(x) \/ IsNaN(v) \/ FLess(v, FInt(0)) \/ (v = FInt(0) /\ x = FInt(0))
    THEN TNaN
    ELSE [nan |-> FALSE, sgn |-> Sign(x.n), sq |-> FDiv(FMul(x, x), v)]

\* entry i of the noise-ceiling variance array along its first axis (of its
\* first column when the array is a matrix)
NcvEntry(ncv, i) == IF ncv.ndim = 1 THEN ncv.data[i] ELSE ncv.data[i][1]

\* the variance the three cases give model i
VarianceAgainstCeiling(variances, ncv, i) ==
    IF ncv.none THEN VarianceOfModel(variances, i)
    ELSE IF ncv.ndim = 0 THEN FAdd(VarianceOfModel(variances, i), ncv.data)
    ELSE FAdd(FSub(VarianceOfModel(variances, i), FMul(FInt(2), NcvEntry(ncv, i))),
              NcvEntry(ncv, Len(ncv.data)))

NcReturned == pc = "done" /\ op = "t_test_nc" /\ ret.raised = "none"

TwoSidedAgainstCeiling(i, v) ==
    LET t == Statistic(FSub(MeanOfModel(args.evaluations, i), args.noise_ceil), v)
    IN  [nan |-> t.nan, tail |-> "two", sgn |-> Abs(t.sgn), sq |-> t.sq,
         dof |-> args.dof]

\* C15: when noise_ceil_var is a single number or a vector, t_test_nc
\* performs the independent test: the variance used for model i is the
\* model's variance plus the noise-ceiling variance (the number, or an entry
\* of the vector); the covariance-subtracting test is left to a covariance
\* matrix.
C15_VectorIsIndependent ==
    (NcReturned /\ ~args.noise_ceil_var.none) =>
        LET ncv == args.noise_ceil_var
            own(i) == VarianceOfModel(args.variances, i)
        IN  \A i \in DOMAIN ret.value :
                \* (a p-value that is undefined is C3's matter)
                ~ret.value[i].nan =>
                    /\ ncv.ndim = 0 =>
                          ret.value[i] = TwoSidedAgainstCeiling(i, FAdd(own(i), ncv.data))
                    /\ ncv.ndim = 1 =>
                          \E k \in DOMAIN ncv.data :
                              ret.value[i] =
                                  TwoSidedAgainstCeiling(i, FAdd(own(i), ncv.data[k]))

\* S[i, j]: a variance vector is the diagonal of S, with 0 elsewhere
Covariance(variances, i, j) ==
    IF variances.ndim = 2 THEN variances.data[i][j]
    ELSE IF i = j THEN variances.data[i] ELSE FInt(0)

\* the two-sided p-value of the statistic t
TwoSidedOf(t, dof) ==
    [nan |-> t.nan, tail |-> "two", sgn |-> Abs(t.sgn), sq |-> t.sq, dof |-> dof]

\* the two-sided p-value of the statistic 0, which is 1
PValueOne(dof) ==
    [nan |-> FALSE, tail |-> "two", sgn |-> 0, sq |-> FInt(0), dof |-> dof]

TTestsReturned == pc = "done" /\ op = "t_tests" /\ ret.raised = "none"

\* C16: for n models t_tests returns an n-by-n symmetric matrix; its entry
\* for i # j is the two-sided p-value of
\* (mean_i - mean_j) / sqrt(S[i,i] + S[j,j] - 2*S[i,j]), with mean the
\* evaluation averaged over the sample axis and all trailing axes and S the
\* covariance matrix (a variance vector is its diagonal); its diagonal
\* entries are 1.
C16_PairwiseTTests ==
    TTestsReturned =>
        LET P == ret.value
            n == args.evaluations.shape[2]
            S(i, j) == Covariance(args.variances, i, j)
        IN  /\ DOMAIN P = 1..n
            /\ \A i \in 1..n : DOMAIN P[i] = 1..n
            /\ \A i \in 1..n : \A j \in 1..n : P[i][j] = P[j][i]
            /\ \A i \in 1..n : P[i][i] = PValueOne(args.dof)
            /\ \A i \in 1..n : \A j \in 1..n :
                  i # j =>
                     P[i][j] = TwoSidedOf(
                         Statistic(FSub(MeanOfModel(args.evaluations, i),
                                        MeanOfModel(args.evaluations, j)),
                                   FSub(FAdd(S(i, i), S(j, j)),
                                        FMul(FInt(2), S(i, j)))),
                         args.dof)

\* C16's case: two models with different means and a covariance matrix whose
\* off-diagonal entry is not 0 and that gives their difference a positive
\* variance
C16_Witness ==
    /\ TTestsReturned
    /\ args.variances.ndim = 2
    /\ args.variances.data[1][2] # FInt(0)
    /\ MeanOfModel(args.evaluations, 1) # MeanOfModel(args.evaluations, 2)
    /\ ~ret.value[1][2].nan
    /\ IsFinite(ret.value[1][2].sq)
    /\ ret.value[1][2].sgn = 1

\* the statistic of an upper-tail p-value as a signed square (sgn * t^2),
\* which orders the statistics as t itself does
SignedSquare(p) == IF p.sgn < 0 THEN FNeg(p.sq) ELSE p.sq

\* p <= q for two upper-tail p-values: 1 - cdf is decreasing in the statistic
UpperTailLeq(p, q) ==
    ~p.nan /\ ~q.nan /\ FLeq(SignedSquare(q), SignedSquare(p))

T0Returned == pc = "done" /\ op = "t_test_0" /\ ret.raised = "none"

\* C17: t_test_0 returns for every model i the upper-tail probability of
\* mean_i / sqrt(var_i), var_i being the model's own variance (the diagonal
\* of a covariance matrix): it is 1/2 when mean_i = 0, below 1/2 when
\* mean_i > 0, above 1/2 when mean_i < 0, it does not increase when mean_i
\* increases with var_i fixed, and it differs for mean_i and -mean_i.
C17_UpperTailOfOwnVariance ==
    T0Returned =>
        LET p == ret.value
            mean(i) == MeanOfModel(args.evaluations, i)
            var(i)  == VarianceOfModel(args.variances, i)
        IN  /\ DOMAIN p = 1..args.evaluations.shape[2]
            /\ \A i \in DOMAIN p :
                  /\ p[i].tail = "upper"
                  /\ p[i].dof = args.dof
                  \* 1 - cdf(0) = 1/2; a positive statistic is below, a
                  \* negative one above
                  /\ mean(i) = FInt(0) => (~p[i].nan /\ p[i].sgn = 0)
                  /\ FLess(FInt(0), mean(i)) => (~p[i].nan /\ p[i].sgn = 1)
                  /\ FLess(mean(i), FInt(0)) => (~p[i].nan /\ p[i].sgn = -1)
            /\ \A i \in DOMAIN p : \A j \in DOMAIN p :
                  var(i) = var(j) =>
                     /\ FLeq(mean(i), mean(j)) => UpperTailLeq(p[j], p[i])
                     /\ (mean(i) = FNeg(mean(j)) /\ mean(i) # FInt(0)) => p[i] # p[j]

----------------------------------------------------------------------------
(* Claims about default_k_pattern and default_k_rdm                        *)

KPatternDone == pc = "done" /\ op = "default_k_pattern" /\ ret.raised = "none"

KRdmDone == pc = "done" /\ op = "default_k_rdm" /\ ret.raised = "none"

\* C18: for every n >= 0, default_k_pattern(n) is 2 if n < 12, 3 if
\* 12 <= n < 24, 4 if 24 <= n < 40 and 5 otherwise; default_k_rdm(n) is 2 if
\* n < 6, 3 if 6 <= n < 12, 4 if 12 <= n < 20 and 5 otherwise; neither
\* returns less for n than for a smaller count, and both return a value of
\* 2..5.
C18_Staircases ==
    /\ KPatternDone =>
          LET n == args.n_pattern
              k == ret.value
          IN  /\ k \in 2..5
              /\ k = 2 <=> n < 12
              /\ k = 3 <=> (12 <= n /\ n < 24)
              /\ k = 4 <=> (24 <= n /\ n < 40)
              /\ k = 5 <=> 40 <= n
              /\ \A s \in 0..n : default_k_pattern(s) <= k
    /\ KRdmDone =>
          LET n == args.n_rdm
              k == ret.value
          IN  /\ k \in 2..5
              /\ k = 2 <=> n < 6
              /\ k = 3 <=> (6 <= n /\ n < 12)
              /\ k = 4 <=> (12 <= n /\ n < 20)
              /\ k = 5 <=> 20 <= n
              /\ \A s \in 0..n : default_k_rdm(s) <= k

\* C18's case: the first count of the third step, 24 patterns in 4 groups
C18_Witness ==
    /\ KPatternDone
    /\ args.n_pattern = 24
    /\ ret.value = 4

\* C19: the group counts returned are feasible for every count n >= 0:
\* n >= 3 * default_k_pattern(n) patterns, and n >= default_k_rdm(n) RDMs.
C19_FeasibleGroupCounts ==
    /\ KPatternDone => args.n_pattern >= 3 * ret.value
    /\ KRdmDone => args.n_rdm >= ret.value

----------------------------------------------------------------------------
(* Claims about the collection pool_rdm returns                            *)

\* C20: whatever the number of input rows, the collection pool_rdm returns
\* has exactly one row (of as many columns as the input); its dissimilarity
\* measure, its collection-level descriptors and its per-condition
\* descriptors are those of the input, and it has no per-row descriptor.
C20_PooledCollection ==
    PoolReturned =>
        /\ Len(ret.value.dissimilarities) = 1
        /\ DOMAIN ret.value.dissimilarities[1] = DOMAIN args.rdms.dissimilarities[1]
        /\ ret.value.dissimilarity_measure = args.rdms.dissimilarity_measure
        /\ ret.value.descriptors = args.rdms.descriptors
        /\ ret.value.pattern_descriptors = args.rdms.pattern_descriptors
        /\ ret.value.rdm_descriptors = {}

\* C20's case: two input rows, each with a row descriptor, pooled into one
\* row without row descriptors
C20_Witness ==
    /\ PoolReturned
    /\ Len(args.rdms.dissimilarities) = 2
    /\ args.rdms.rdm_descriptors # {}
    /\ Len(ret.value.dissimilarities) = 1
    /\ ret.value.rdm_descriptors = {}
    /\ ret.value.descriptors # {}

----------------------------------------------------------------------------
(* Claims about the rank transform                                         *)

RankDone == pc = "done" /\ op = "_nan_rank_data" /\ ret.raised = "none"

\* the positions of a row that are not NaN
Unmasked(v) == {k \in DOMAIN v : ~IsNaN(v[k])}

\* C22: the rank transform of a row gives every entry that is not NaN its
\* fractional rank among the entries of the row that are not NaN (1-based,
\* tied values all get the average of the ranks they span), is NaN exactly
\* where the row is NaN, and the ranks of a row with m entries that are not
\* NaN sum to m*(m+1)/2.
C22_FractionalRanks ==
    RankDone =>
        LET v     == args.rdm_vector
            ranks == ret.value
            m     == Cardinality(Unmasked(v))
        IN  /\ DOMAIN ranks = DOMAIN v
            /\ \A k \in DOMAIN v : IsNaN(ranks[k]) <=> IsNaN(v[k])
            /\ \A k \in Unmasked(v) :
                  LET below == Cardinality({l \in Unmasked(v) : FLess(v[l], v[k])})
                      tied  == Cardinality({l \in Unmasked(v) : v[l] = v[k]})
                  IN  \* the average of the ranks below+1 .. below+tied
                      ranks[k] = Frac(2 * below + tied + 1, 2)
            /\ FSum([k \in 1..m |-> NotNaN(ranks)[k]]) = Frac(m * (m + 1), 2)

\* C22's case: a row with a NaN, two tied values and a value above them
C22_Witness ==
    /\ RankDone
    /\ LET v == args.rdm_vector
       IN  /\ Len(v) = 4
           /\ \E a \in DOMAIN v : \E b \in DOMAIN v : \E c \in DOMAIN v :
              \E d \in DOMAIN v :
                 /\ IsNaN(v[a]) /\ IsNaN(ret.value[a])
                 /\ b # c /\ v[b] = v[c] /\ ~IsNaN(v[b])
                 /\ FLess(v[b], v[d])
                 /\ ret.value[b] = Frac(3, 2)
                 /\ ret.value[c] = Frac(3, 2)
                 /\ ret.value[d] = FInt(3)

----------------------------------------------------------------------------
(* Claims about plot_model_comparison and plot_arrows                      *)

\* plot_model_comparison has finished a call that asks for pairwise tests
PairTestsPlotted ==
    /\ pc = "done"
    /\ op = "plot_model_comparison"
    /\ args.plot_pair_tests \notin {PyFalse, Str("none")}

\* the p-values of the m pairs that are below x
PairsBelow(res, x) ==
    {q \in (DOMAIN res) \X (DOMAIN res) : q[1] < q[2] /\ FLess(res[q[1]][q[2]], x)}

\* the ranks k whose sorted p-value is below alpha*k/m: the k-th smallest
\* p-value is below x exactly when at least k p-values are below x
RanksBelowCriterion(res, alpha, m) ==
    {k \in 1..m :
        Cardinality(PairsBelow(res, FDiv(FMul(alpha, FInt(k)), FInt(m)))) >= k}

\* the pair i, j is marked under the rule of the claim
MarkedByRule(res, alpha, multiple_testing, i, j) ==
    LET n == Len(res)
        m == (n * (n - 1)) \div 2
        p == res[i][j]
        K == RanksBelowCriterion(res, alpha, m)
    IN  IF multiple_testing \in {Str("Bonferroni"), Str("bonferroni"), Str("FWER"),
                                 Str("fwer")}
        THEN FLess(p, FDiv(alpha, FInt(m)))
        ELSE IF multiple_testing \in {Str("FDR"), Str("fdr"), Str("Fdr")}
        THEN /\ K # {}
             /\ FLess(p, FDiv(FMul(alpha, FInt(CHOOSE k \in K : \A l \in K : l <= k)),
                              FInt(m)))
        ELSE FLess(p, alpha)

\* C21: when plot_model_comparison plots pairwise tests of n models, a pair
\* is marked significant iff its p-value is below alpha/m with
\* multiple_testing 'Bonferroni' or 'FWER' (any letter case), below
\* alpha*k/m for the largest rank k whose sorted p-value is below alpha*k/m
\* with 'FDR' (any letter case; no pair when there is no such rank), and
\* below alpha with any other value (False, 'none', ...); a pair of a model
\* with itself is never marked.
C21_SignificantPairs ==
    PairTestsPlotted =>
        LET n == Len(args.res)
        IN  /\ DOMAIN heap.significant = 1..n
            /\ \A i \in 1..n : \A j \in 1..n :
                  heap.significant[i][j] <=>
                     /\ i # j
                     /\ MarkedByRule(args.res, args.alpha, args.multiple_testing, i, j)

\* plot_model_comparison has marked the pairs and none of them is significant
NoPairSignificant ==
    /\ PairTestsPlotted
    /\ Lower(args.plot_pair_tests[2]) = "arrows"
    /\ heap.significant # <<>>
    /\ \A i \in DOMAIN heap.significant : \A j \in DOMAIN heap.significant :
          ~heap.significant[i][j]

\* C23: plot_arrows returns without raising an error for every square
\* boolean significance matrix of n >= 2 models, also for a matrix without a
\* significant entry and for a matrix whose only captured comparisons are
\* left-pointing single arrows; so plot_model_comparison with
\* plot_pair_tests 'arrows' completes when no pair of models is significant.
C23_PlotArrowsReturns ==
    /\ (pc = "done" /\ op = "plot_arrows") => ret.raised = "none"
    /\ NoPairSignificant => ret.raised = "none"


============================================================================
